---- MODULE Spec2Model ----
(***************************************************************************)
(* A model of the Image component of src/src/index.tsx: the resolution of  *)
(* a Source into a URI, the load state machine driven by the image-loading *)
(* effect, and the values derived in each render.                          *)
(*                                                                         *)
(* Strings are sequences of one-character tokens, so that the SVG escaping *)
(* of resolveAssetUri is computed character by character.  The prefix      *)
(* matched by svgDataUriPattern is kept as one token.  Numbers that may be *)
(* fractional (scales, the device pixel ratio) are held in tenths.         *)
(***************************************************************************)
EXTENDS Integers, Sequences, FiniteSets, TLC

\* ---------------------------------------------------------------- bounds

\* The number of ImageLoader.load calls one run may make.
MaxRequests == 2

\* ------------------------------------------------------------- constants

ERRORED == "ERRORED"
LOADED == "LOADED"
LOADING == "LOADING"
IDLE == "IDLE"

\* JavaScript's undefined and null as prop values.
Undefined == [type |-> "undefined"]
Null == [type |-> "null"]

\* The null that resolveAssetUri returns: a one-token sequence that no string
\* over single-character tokens equals.
NullUri == <<"null">>

\* The first capture group of svgDataUriPattern, as one token.
SvgPrefix == "data:image/svg+xml;utf8,"

\* ----------------------------------------------------- the asset registry

\* getAssetByID of ./AssetRegistry: handle 1 is registered with two scales,
\* every other handle is unknown (the registry returns null).
NoAsset == [registered |-> FALSE]

getAssetByID(id) ==
    IF id = 1
    THEN [registered |-> TRUE,
          httpServerLocation |-> <<"/", "s">>,
          name |-> <<"i">>,
          type |-> <<"p">>,
          scales |-> <<10, 20>>]
    ELSE NoAsset

\* ------------------------------------------------------------ the sources

StringSource(u) == [type |-> "string", uri |-> u]
NumberSource(n) == [type |-> "number", id |-> n]
ObjectSource(u) == [type |-> "object", uri |-> u]
ArraySource(us) == [type |-> "array", items |-> us]

\* ----------------------------------------------------- resolveAssetUri

Abs(x) == IF x < 0 THEN -x ELSE x

\* The same reduce with <= for <: among equally close scales the last wins.
RECURSIVE ReduceClosest_LastSeen(_, _, _, _)
ReduceClosest_LastSeen(scales, i, prev, preferredScale) ==
    IF i > Len(scales)
    THEN prev
    ELSE ReduceClosest_LastSeen(scales, i + 1,
            IF Abs(scales[i] - preferredScale) <= Abs(prev - preferredScale)
            THEN scales[i]
            ELSE prev,
            preferredScale)

\* asset.scales.reduce((prev, curr) => |curr - p| < |prev - p| ? curr : prev)
\* without an initial value: prev starts as the first element.
RECURSIVE ReduceClosest(_, _, _, _)
ReduceClosest(scales, i, prev, preferredScale) ==
    IF i > Len(scales)
    THEN prev
    ELSE ReduceClosest(scales, i + 1,
            IF Abs(scales[i] - preferredScale) < Abs(prev - preferredScale)
            THEN scales[i]
            ELSE prev,
            preferredScale)

\* The text of a number held in tenths, as `${scale}` prints it.
NumberText(s) ==
    IF s % 10 = 0
    THEN <<ToString(s \div 10)>>
    ELSE <<ToString(s \div 10), ".", ToString(s % 10)>>

\* The scale chosen for an asset (index.tsx 180-185); dpr is
\* window.devicePixelRatio in tenths, 0 when it is undefined or 0.
SelectScale(asset, dpr) ==
    IF Len(asset.scales) > 1
    THEN ReduceClosest(asset.scales, 2, asset.scales[1],
                       IF dpr # 0 THEN dpr ELSE 10)
    ELSE asset.scales[1]

scaleSuffix(scale) ==
    IF scale # 10 THEN <<"@">> \o NumberText(scale) \o <<"x">> ELSE <<>>

\* The characters encodeURIComponent leaves alone.
Unreserved == {"a", "b", "c", "s", "v", "g", "i", "p", "x", "/", "1", "2", "3",
               "0", "5", "A", "C", "E", ".", "-", "_", "!", "~", "*", "'",
               "(", ")"}

\* encodeURIComponent of one character: its UTF-8 byte as %XX.
EncodeChar(c) ==
    CASE c \in Unreserved \ {"/"} -> <<c>>
      [] c = "#"  -> <<"%", "2", "3">>
      [] c = "\"" -> <<"%", "2", "2">>
      [] c = "%"  -> <<"%", "2", "5">>
      [] c = "<"  -> <<"%", "3", "C">>
      [] c = ">"  -> <<"%", "3", "E">>
      [] c = " "  -> <<"%", "2", "0">>
      [] c = "/"  -> <<"%", "2", "F">>
      [] c = "\n" -> <<"%", "0", "A">>
      [] OTHER    -> <<"%", "3", "F">>

RECURSIVE encodeURIComponent(_)
encodeURIComponent(s) ==
    IF s = <<>> THEN <<>> ELSE EncodeChar(Head(s)) \o encodeURIComponent(Tail(s))

\* The second capture group, (.*): the longest run after the prefix that
\* holds no line terminator.
RECURSIVE DotStar(_)
DotStar(s) ==
    IF s = <<>> \/ Head(s) = "\n" THEN <<>> ELSE <<Head(s)>> \o DotStar(Tail(s))

\* uri.match(svgDataUriPattern)
svgDataUriPattern(uri) == uri # <<>> /\ Head(uri) = SvgPrefix

\* Whether resolveAssetUri throws: a numeric handle the registry does not know
\* (index.tsx 174-178), or an empty array (source[0].uri of undefined).
resolveAssetUriThrows(source) ==
    \/ source.type = "number" /\ ~getAssetByID(source.id).registered
    \/ source.type = "array" /\ source.items = <<>>

\* The uri before the SVG escaping (index.tsx 167-194).
RawUri(source, dpr) ==
    CASE source.type = "string" -> source.uri
      [] source.type = "number" ->
            LET asset == getAssetByID(source.id)
                scale == SelectScale(asset, dpr)
            IN  asset.httpServerLocation \o <<"/">> \o asset.name
                    \o scaleSuffix(scale) \o <<".">> \o asset.type
      [] source.type = "array" -> source.items[1].uri
      [] source.type = "object" -> source.uri
      [] OTHER -> NullUri

resolveAssetUri(source, dpr) ==
    LET uri == RawUri(source, dpr)
    IN  IF uri # NullUri /\ uri # <<>> /\ svgDataUriPattern(uri)
        THEN <<SvgPrefix>> \o encodeURIComponent(DotStar(Tail(uri)))
        ELSE uri

\* ------------------------------------------------------------- the props

\* A callback prop is a function identity, or "undefined" when it is not given.
NoFunction == "undefined"

Handlers(start, load, end, error) ==
    [onLoadStart |-> start, onLoad |-> load, onLoadEnd |-> end, onError |-> error]

\* The callback props a render may pass: one set of functions, and the same
\* onLoadStart/onLoadEnd with a new onLoad closure and no onError.
HandlerBundles ==
    { Handlers("f", "f", "f", "f"),
      Handlers("f", "g", "f", NoFunction) }

UriA == <<"a">>
UriB == <<"b">>
SvgUri == <<SvgPrefix, "<", "#">>

\* The values of the source prop a render may pass.
Sources ==
    { Null, Undefined,
      StringSource(UriA),
      ArraySource(<<[uri |-> UriA], [uri |-> UriB]>>),
      ObjectSource(SvgUri),
      NumberSource(2) }

\* The values of the defaultSource prop a render may pass.
DefaultSources == { Undefined, Null, StringSource(UriB) }

PropsSet == [source : Sources, defaultSource : DefaultSources, handlers : HandlerBundles]

\* The uris the loader holds as loaded when the component is mounted: UriA is
\* cached, the other uris of Sources are not.
CachedUris == { UriA }

\* window.devicePixelRatio in tenths; 0 stands for undefined.
DevicePixelRatios == { 24 }

\* ------------------------------------------------------------- the state

VARIABLES
    phase,            \* "init", "mounted", "unmounted" or "crashed" (a render threw)
    props,            \* the props of the last render
    state,            \* the LoadState held by useState
    initialState,     \* what the useState initializer returned, "none" before the mount
    requestRef,       \* requestRef.current: a request id, or NoRequest for null
    requests,         \* the ImageLoader's requests, by id
    cache,            \* the uris ImageLoader.has reports as loaded
    devicePixelRatio, \* window.devicePixelRatio
    trace,            \* every call made to the loader, to updateState and to a callback prop
    sourceAlwaysNull, \* history: every render so far resolved the source to null
    thrown            \* the error a render threw, NoError while none did

vars == <<phase, props, state, initialState, requestRef, requests, cache,
          devicePixelRatio, trace, sourceAlwaysNull, thrown>>

\* A call of one of the module's pure functions, and what it returned.
VARIABLES
    args,             \* the function called and its arguments
    returned          \* its return value, NotCalled before the call

pureVars == <<args, returned>>

\* The state of the process that all instances share.
VARIABLES
    NODE_ENV,         \* process.env.NODE_ENV
    warnedKeys,       \* the keys of warnOnce's warnedKeys object
    console,          \* the keys whose message console.warn printed, in order
    _filterId,        \* the module-level counter of index.tsx 89
    instances,        \* the instances constructed so far: filterRef.current and renders
    usedKeys          \* history: the warning keys each render asked for, in render order

processVars == <<NODE_ENV, warnedKeys, console, _filterId, instances, usedKeys>>

allVars == <<vars, pureVars, processVars>>

NotCalled == [fn |-> "none"]

\* No pure function is under test.
QuietPure == args = NotCalled /\ returned = NotCalled

\* The process state before any instance uses a deprecated style field or a
\* filter id.
InitProcess ==
    /\ warnedKeys = {}
    /\ console = <<>>
    /\ _filterId = 0
    /\ instances = <<>>
    /\ usedKeys = <<>>

\* requestRef.current === null
NoRequest == 0

\* ------------------------------------------------------- the image loader

\* ImageLoader.has(uri)
ImageLoaderHas(c, uri) == uri \in c

\* ImageLoader.load(uri, onLoad, onError): a new pending request, whose id is
\* returned; the request keeps the two callbacks, closed over uri and the
\* callback props of the render that issued it.
ImageLoaderLoad(reqs, uri, handlers) ==
    Append(reqs, [uri |-> uri, handlers |-> handlers, status |-> "pending"])

\* ImageLoader.abort(id): idempotent, a no-op on a settled or aborted request.
ImageLoaderAbort(reqs, id) ==
    IF reqs[id].status = "pending"
    THEN [reqs EXCEPT ![id].status = "aborted"]
    ELSE reqs

\* The event the loader passes to the callbacks of request id.
LoaderEvent(kind, id) == [type |-> kind, target |-> id]

\* ------------------------------------------------ the image loading effect
\* A handler is run on m = [mounted, state, requestRef, requests, trace], each
\* statement mapping m to the next m, in the order of the source.

Emit(m, entry) == [m EXCEPT !.trace = Append(@, entry)]

\* updateState(value): React drops the update of an unmounted component.
updateState(m, value) ==
    Emit([m EXCEPT !.state = IF m.mounted THEN value ELSE @],
         [op |-> "updateState", value |-> value])

\* fn?.(e), and if (fn) fn(e): the entry is the call; with fn = NoFunction no
\* call is made and the entry only marks the place.
Notify(m, name, fn, e) == Emit(m, [op |-> name, fn |-> fn, e |-> e])

\* abortPendingRequest without the ImageLoader.abort call.
abortPendingRequest_ClearOnly(m) == [m EXCEPT !.requestRef = NoRequest]

\* abortPendingRequest without requestRef.current = null.
abortPendingRequest_KeepRef(m) ==
    IF m.requestRef # NoRequest
    THEN [Emit(m, [op |-> "abort", id |-> m.requestRef])
            EXCEPT !.requests = ImageLoaderAbort(m.requests, m.requestRef)]
    ELSE m

abortPendingRequest(m) ==
    IF m.requestRef # NoRequest
    THEN [Emit(m, [op |-> "abort", id |-> m.requestRef])
            EXCEPT !.requests = ImageLoaderAbort(m.requests, m.requestRef),
                   !.requestRef = NoRequest]
    ELSE m

\* requestRef.current = ImageLoader.load(uri, load, error)
IssueLoad(m, uri, handlers) ==
    LET id == Len(m.requests) + 1
    IN  [Emit(m, [op |-> "load", uri |-> uri, id |-> id])
            EXCEPT !.requests = ImageLoaderLoad(m.requests, uri, handlers),
                   !.requestRef = id]

\* The effect with the load issued before the state update and the load-start.
ImageLoadingEffect_LoadFirst(m, uri, handlers) ==
    LET m1 == abortPendingRequest(m)
    IN  IF uri # NullUri
        THEN LET m2 == IssueLoad(m1, uri, handlers)
                 m3 == updateState(m2, LOADING)
             IN  Notify(m3, "onLoadStart", handlers.onLoadStart, <<>>)
        ELSE m1

\* The effect without the uri !== null guard.
ImageLoadingEffect_NoGuard(m, uri, handlers) ==
    LET m1 == abortPendingRequest(m)
        m2 == updateState(m1, LOADING)
        m3 == Notify(m2, "onLoadStart", handlers.onLoadStart, <<>>)
    IN  IssueLoad(m3, uri, handlers)

\* The effect resetting the state to Idle when the uri is null.
ImageLoadingEffect_ResetIdle(m, uri, handlers) ==
    LET m1 == abortPendingRequest(m)
    IN  IF uri # NullUri
        THEN LET m2 == updateState(m1, LOADING)
                 m3 == Notify(m2, "onLoadStart", handlers.onLoadStart, <<>>)
             IN  IssueLoad(m3, uri, handlers)
        ELSE updateState(m1, IDLE)

\* The body of the effect (index.tsx 310-339).
ImageLoadingEffect(m, uri, handlers) ==
    LET m1 == abortPendingRequest(m)
    IN  IF uri # NullUri
        THEN LET m2 == updateState(m1, LOADING)
                 m3 == Notify(m2, "onLoadStart", handlers.onLoadStart, <<>>)
             IN  IssueLoad(m3, uri, handlers)
        ELSE m1

\* function load(e) calling onLoad before it updates the state.
LoadCallback_NotifyFirst(m, handlers, e) ==
    LET m1 == Notify(m, "onLoad", handlers.onLoad, e)
        m2 == updateState(m1, LOADED)
    IN  Notify(m2, "onLoadEnd", handlers.onLoadEnd, e)

\* function load(e) without the state update.
LoadCallback_NoUpdate(m, handlers, e) ==
    LET m1 == Notify(m, "onLoad", handlers.onLoad, e)
    IN  Notify(m1, "onLoadEnd", handlers.onLoadEnd, e)

\* function load(e) (index.tsx 319-326), with the callbacks it closed over.
LoadCallback(m, handlers, e) ==
    LET m1 == updateState(m, LOADED)
        m2 == Notify(m1, "onLoad", handlers.onLoad, e)
    IN  Notify(m2, "onLoadEnd", handlers.onLoadEnd, e)

\* The message of the error event: `Failed to load resource ${uri} (404)`.
ErrorMessage(uri) == <<"Failed to load resource ">> \o uri \o <<" (404)">>

\* function error(e) calling onLoadEnd before onError.
ErrorCallback_EndFirst(m, uri, handlers, e) ==
    LET m1 == updateState(m, ERRORED)
        m2 == Notify(m1, "onLoadEnd", handlers.onLoadEnd, e)
    IN  Notify(m2, "onError", handlers.onError,
               [nativeEvent |-> [error |-> ErrorMessage(uri)]])

\* function error(e) (index.tsx 327-337).
ErrorCallback(m, uri, handlers, e) ==
    LET m1 == updateState(m, ERRORED)
        m2 == Notify(m1, "onError", handlers.onError,
                     [nativeEvent |-> [error |-> ErrorMessage(uri)]])
    IN  Notify(m2, "onLoadEnd", handlers.onLoadEnd, e)

\* The useState initializer without the cache check.
InitialState_NoCache(m, uri) == [m EXCEPT !.state = IDLE]

\* The useState initializer (index.tsx 226-235).
InitialState(m, uri) ==
    IF uri # NullUri
    THEN [Emit(m, [op |-> "has", uri |-> uri])
            EXCEPT !.state = IF ImageLoaderHas(cache, uri) THEN LOADED ELSE IDLE]
    ELSE [m EXCEPT !.state = IDLE]

\* The dependency list of the effect changed between two renders
\* (index.tsx 342; requestRef and updateState never change).
DepsChanged(oldUri, oldHandlers, uri, handlers) ==
    \/ uri # oldUri
    \/ handlers.onError # oldHandlers.onError
    \/ handlers.onLoad # oldHandlers.onLoad
    \/ handlers.onLoadEnd # oldHandlers.onLoadEnd
    \/ handlers.onLoadStart # oldHandlers.onLoadStart

\* ----------------------------------------------- values derived in a render

\* index.tsx 241
shouldDisplaySourceOf(s, defaultSource) ==
    s = LOADED \/ (s = LOADING /\ defaultSource = Null)

shouldDisplaySource == shouldDisplaySourceOf(state, props.defaultSource)

\* index.tsx 253
selectedSource == IF shouldDisplaySource THEN props.source ELSE props.defaultSource

\* The uri of the source prop, as the last render resolved it (index.tsx 301).
uri == resolveAssetUri(props.source, devicePixelRatio)

\* ------------------------------------------------------------ the actions

Machine == [mounted |-> phase = "mounted", state |-> state, requestRef |-> requestRef,
            requests |-> requests, trace |-> trace]

Commit(m) ==
    /\ state' = m.state
    /\ requestRef' = m.requestRef
    /\ requests' = m.requests
    /\ trace' = m.trace

\* Nothing was thrown out of a render.
NoError == [name |-> "none"]

\* What resolveAssetUri throws for a source it cannot resolve: the Error of
\* index.tsx 175-177, whose message holds the handle, or the TypeError of
\* source[0].uri on an empty array.
ThrownBy(source) ==
    IF source.type = "number"
    THEN [name |-> "Error",
          message |-> <<"Image: asset with ID \"", ToString(source.id),
                        "\" could not be found. Please check the image source or packager.">>]
    ELSE [name |-> "TypeError"]

\* The source a render with state s and props p displays (index.tsx 241, 253).
DisplayedSource(s, p) ==
    IF shouldDisplaySourceOf(s, p.defaultSource) THEN p.source ELSE p.defaultSource

\* A render that resolves no displayed source, as if index.tsx 254 were absent.
DisplayThrows_Never(s, p) == FALSE

\* resolveAssetUri(selectedSource) throws (index.tsx 254).
DisplayThrows(s, p) == resolveAssetUriThrows(DisplayedSource(s, p))

\* The body of a render after the hooks throws: resolveAssetUri of the
\* displayed source (index.tsx 254) or of the source (index.tsx 301).
RenderThrows(s, p) == DisplayThrows(s, p) \/ resolveAssetUriThrows(p.source)

RenderError(s, p) ==
    IF DisplayThrows(s, p) THEN ThrownBy(DisplayedSource(s, p)) ELSE ThrownBy(p.source)

\* A handler left the mounted component as m: React renders it again with the
\* state of m.  An error thrown by that render is caught by nothing: React
\* unmounts the component, which runs the cleanup of the effect.
Settle(m, p) ==
    IF m.mounted /\ RenderThrows(m.state, p)
    THEN /\ phase' = "crashed"
         /\ thrown' = RenderError(m.state, p)
         /\ Commit(abortPendingRequest(m))
    ELSE /\ phase' = IF m.mounted THEN "mounted" ELSE phase
         /\ thrown' = thrown
         /\ Commit(m)

Init ==
    /\ phase = "init"
    /\ props = [source |-> Undefined, defaultSource |-> Undefined,
                handlers |-> Handlers(NoFunction, NoFunction, NoFunction, NoFunction)]
    /\ state = IDLE
    /\ initialState = "none"
    /\ requestRef = NoRequest
    /\ requests = <<>>
    /\ cache = CachedUris
    /\ devicePixelRatio \in DevicePixelRatios
    /\ trace = <<>>
    /\ sourceAlwaysNull = TRUE
    /\ thrown = NoError

\* The first render and the effect that follows it.  A source that cannot be
\* resolved throws out of the useState initializer, and a displayed source
\* that cannot be resolved throws out of the first render after the
\* initializer ran: nothing is mounted and the effect does not run.
Mount(p) ==
    /\ phase = "init"
    /\ props' = p
    /\ UNCHANGED <<cache, devicePixelRatio>>
    /\ IF resolveAssetUriThrows(p.source)
       THEN /\ phase' = "crashed"
            /\ thrown' = ThrownBy(p.source)
            /\ UNCHANGED <<state, initialState, requestRef, requests, trace, sourceAlwaysNull>>
       ELSE LET u == resolveAssetUri(p.source, devicePixelRatio)
                m0 == InitialState([Machine EXCEPT !.mounted = TRUE], u)
            IN  /\ initialState' = m0.state
                /\ sourceAlwaysNull' = (u = NullUri)
                /\ IF DisplayThrows(m0.state, p)
                   THEN /\ phase' = "crashed"
                        /\ thrown' = RenderError(m0.state, p)
                        /\ trace' = m0.trace
                        /\ UNCHANGED <<state, requestRef, requests>>
                   ELSE Settle(ImageLoadingEffect(m0, u, p.handlers), p)

\* A render with new props.  When a dependency of the effect changed, its
\* cleanup runs and then the effect.  A source that cannot be resolved throws
\* out of the render, and React unmounts the component, running the cleanup.
Rerender(p) ==
    /\ phase = "mounted"
    /\ props' = p
    /\ UNCHANGED <<cache, devicePixelRatio, initialState>>
    /\ IF RenderThrows(state, p)
       THEN /\ phase' = "crashed"
            /\ thrown' = RenderError(state, p)
            /\ sourceAlwaysNull' = sourceAlwaysNull
            /\ Commit(abortPendingRequest(Machine))
       ELSE LET u == resolveAssetUri(p.source, devicePixelRatio)
            IN  /\ sourceAlwaysNull' = (sourceAlwaysNull /\ u = NullUri)
                /\ IF DepsChanged(uri, props.handlers, u, p.handlers)
                   THEN Settle(ImageLoadingEffect(abortPendingRequest(Machine), u, p.handlers), p)
                   ELSE UNCHANGED <<phase, thrown, state, requestRef, requests, trace>>

\* An unmount whose cleanup does nothing.
Unmount_NoCleanup ==
    /\ phase = "mounted"
    /\ phase' = "unmounted"
    /\ UNCHANGED <<props, state, initialState, requestRef, requests, cache,
                   devicePixelRatio, trace, sourceAlwaysNull, thrown>>

\* The component is removed: the cleanup of the effect runs.
Unmount ==
    /\ phase = "mounted"
    /\ phase' = "unmounted"
    /\ Commit(abortPendingRequest(Machine))
    /\ UNCHANGED <<props, initialState, cache, devicePixelRatio, sourceAlwaysNull, thrown>>

\* The loader settles a pending request with success and calls its load callback.
LoaderSucceeds(id) ==
    /\ requests[id].status = "pending"
    /\ Settle(LoadCallback([Machine EXCEPT !.requests[id].status = "loaded"],
                           requests[id].handlers, LoaderEvent("load", id)), props)
    /\ UNCHANGED <<props, initialState, cache, devicePixelRatio, sourceAlwaysNull>>

\* The loader settles a pending request with failure and calls its error callback.
LoaderFails(id) ==
    /\ requests[id].status = "pending"
    /\ Settle(ErrorCallback([Machine EXCEPT !.requests[id].status = "failed"],
                            requests[id].uri, requests[id].handlers,
                            LoaderEvent("error", id)), props)
    /\ UNCHANGED <<props, initialState, cache, devicePixelRatio, sourceAlwaysNull>>

\* A render is taken only while the run may still issue the load it asks for.
WithinBounds(p) ==
    IF resolveAssetUriThrows(p.source)
    THEN TRUE
    ELSE resolveAssetUri(p.source, devicePixelRatio) = NullUri
            \/ Len(requests) < MaxRequests

\* The steps of one instance; its props carry no style, blurRadius or tint
\* color, so that the pure-function and process variables stay as they are.
Next ==
    \/ \E p \in PropsSet : WithinBounds(p) /\ Mount(p) /\ UNCHANGED <<pureVars, processVars>>
    \/ \E p \in PropsSet : WithinBounds(p) /\ Rerender(p) /\ UNCHANGED <<pureVars, processVars>>
    \/ Unmount /\ UNCHANGED <<pureVars, processVars>>
    \/ \E id \in DOMAIN requests : LoaderSucceeds(id) /\ UNCHANGED <<pureVars, processVars>>
    \/ \E id \in DOMAIN requests : LoaderFails(id) /\ UNCHANGED <<pureVars, processVars>>

InitComponent == Init /\ QuietPure /\ NODE_ENV = "development" /\ InitProcess

Spec == InitComponent /\ [][Next]_allVars

\* The props of a component whose sources are numeric handles: handle 1 is
\* registered, handle 2 is not.
AssetPropsSet ==
    [source : { Null, StringSource(UriA), ObjectSource(SvgUri), NumberSource(1), NumberSource(2) },
     defaultSource : { Undefined, NumberSource(1), NumberSource(2) },
     handlers : { Handlers("f", "f", "f", "f") }]

NextAssets ==
    \/ \E p \in AssetPropsSet : WithinBounds(p) /\ Mount(p) /\ UNCHANGED <<pureVars, processVars>>
    \/ \E p \in AssetPropsSet : WithinBounds(p) /\ Rerender(p) /\ UNCHANGED <<pureVars, processVars>>
    \/ Unmount /\ UNCHANGED <<pureVars, processVars>>
    \/ \E id \in DOMAIN requests : LoaderSucceeds(id) /\ UNCHANGED <<pureVars, processVars>>
    \/ \E id \in DOMAIN requests : LoaderFails(id) /\ UNCHANGED <<pureVars, processVars>>

\* The component with numeric handles among its sources.
SpecAssets == InitComponent /\ [][NextAssets]_allVars

\* ------------------------------------------------ reading the trace

Indices(op) == { i \in DOMAIN trace : trace[i].op = op }

\* The entries made by the callbacks of request id: the loader's event names it.
CallbackIndices(op, id) == { i \in Indices(op) : trace[i].e.target = id }

Pending == { id \in DOMAIN requests : requests[id].status = "pending" }

\* Request id was settled (its callback ran) before trace index j.
SettledBefore(id, j) == \E k \in CallbackIndices("onLoadEnd", id) : k < j

\* s holds t as a contiguous run.
Contains(s, t) ==
    \E k \in 1..(Len(s) - Len(t) + 1) : SubSeq(s, k, k + Len(t) - 1) = t

\* ---------------------------------------------------------------- claims

\* C1: whenever a request is still outstanding when the load coordination runs
\* again, ImageLoader.abort is called on its handle before the next
\* ImageLoader.load call, so at most one request of the instance is live
\* (pending) at any time, and a live request is the one requestRef holds.
C1_AbortBeforeNextLoad ==
    /\ Cardinality(Pending) <= 1
    /\ \A id \in Pending : requestRef = id
    /\ \A i \in Indices("load") : \A j \in Indices("load") :
          (i < j /\ ~SettledBefore(trace[i].id, j))
            => \E k \in Indices("abort") : i < k /\ k < j /\ trace[k].id = trace[i].id

\* A request was aborted while pending and a later load was issued.
C1_Witness ==
    \E id \in DOMAIN requests : requests[id].status = "aborted" /\ id < Len(requests)

\* The entries a step appended to the trace.
Appended == SubSeq(trace', Len(trace) + 1, Len(trace'))

Ops(entries) == { entries[i].op : i \in DOMAIN entries }

\* C2: the load coordination runs only when the resolved uri changes: a render
\* that resolves the source to the same uri as the render before it makes no
\* abort and no load call, and the state does not go from Loaded or Errored back
\* to Loading.
C2_OnlyOnUriChange ==
    [][ (phase = "mounted" /\ phase' = "mounted" /\ uri' = uri)
          => /\ Ops(Appended) \cap {"abort", "load"} = {}
             /\ ~(state \in {LOADED, ERRORED} /\ state' = LOADING) ]_vars

ErrorRun(i, id) ==
    /\ i + 2 <= Len(trace)
    /\ trace[i] = [op |-> "updateState", value |-> ERRORED]
    /\ trace[i + 1].op = "onError"
    /\ trace[i + 1].fn = requests[id].handlers.onError
    /\ Contains(trace[i + 1].e.nativeEvent.error, requests[id].uri)
    /\ trace[i + 2] = [op |-> "onLoadEnd", fn |-> requests[id].handlers.onLoadEnd,
                       e |-> LoaderEvent("error", id)]

\* C4: for every load the loader fails, the state is set to Errored, then onError
\* is called once with an event whose message holds the requested uri, then
\* onLoadEnd once; onLoad is never called for that load; each onError call
\* belongs to one failed load; and the failure leaves the component mounted
\* with the state Errored.
C4_FailureNotifies ==
    /\ \A id \in DOMAIN requests :
          requests[id].status = "failed"
            => /\ \E i \in DOMAIN trace : ErrorRun(i, id)
               /\ Cardinality(CallbackIndices("onLoadEnd", id)) = 1
               /\ CallbackIndices("onLoad", id) = {}
               /\ \E l \in Indices("load") :
                     trace[l].id = id /\ trace[l].uri = requests[id].uri
    /\ \A i \in Indices("onError") :
          \E id \in DOMAIN requests :
             requests[id].status = "failed" /\ i > 1 /\ ErrorRun(i - 1, id)
    /\ Cardinality(Indices("onError"))
          = Cardinality({ id \in DOMAIN requests : requests[id].status = "failed" })
    /\ (trace # <<>> /\ trace[Len(trace)].op = "onLoadEnd"
            /\ trace[Len(trace)].e.type = "error")
          => state = ERRORED /\ phase = "mounted"

\* A load failed with an onError callback given.
C4_Witness ==
    \E id \in DOMAIN requests :
        requests[id].status = "failed" /\ requests[id].handlers.onError # NoFunction

\* The three entries the load callback of request id makes, from index i.
LoadRun(i, id) ==
    /\ i + 2 <= Len(trace)
    /\ trace[i] = [op |-> "updateState", value |-> LOADED]
    /\ trace[i + 1] = [op |-> "onLoad", fn |-> requests[id].handlers.onLoad,
                       e |-> LoaderEvent("load", id)]
    /\ trace[i + 2] = [op |-> "onLoadEnd", fn |-> requests[id].handlers.onLoadEnd,
                       e |-> LoaderEvent("load", id)]

\* C5: for every load the loader completes, the state is set to Loaded, then
\* onLoad is called with the loader's event, then onLoadEnd, each once and in
\* that order; onError is not called for that load (every onError call is
\* followed by the load-end of a failed load).
C5_SuccessNotifies ==
    /\ \A id \in DOMAIN requests :
          requests[id].status = "loaded"
            => /\ \E i \in DOMAIN trace : LoadRun(i, id)
               /\ Cardinality(CallbackIndices("onLoad", id)) = 1
               /\ Cardinality(CallbackIndices("onLoadEnd", id)) = 1
    /\ \A i \in Indices("onError") :
          /\ i < Len(trace)
          /\ trace[i + 1].op = "onLoadEnd"
          /\ requests[trace[i + 1].e.target].status = "failed"
    /\ (trace # <<>> /\ trace[Len(trace)].op = "onLoadEnd"
            /\ trace[Len(trace)].e.type = "load")
          => state = LOADED

\* A load completed with an onLoad callback given.
C5_Witness ==
    \E id \in DOMAIN requests :
        requests[id].status = "loaded" /\ requests[id].handlers.onLoad # NoFunction

\* C6: a request that was superseded, or whose component was unmounted, is not
\* live: only the request requestRef holds can be pending, none is pending once
\* the component is gone, and every callback entry of a request was made before
\* that request was aborted and before a later load was issued, so a late
\* success or failure changes neither the state nor the callbacks called.
C6_OnlyLatestRequestActs ==
    /\ \A id \in DOMAIN requests : id # requestRef => requests[id].status # "pending"
    /\ phase \in {"unmounted", "crashed"} => Pending = {} /\ requestRef = NoRequest
    /\ \A i \in Indices("onLoad") \cup Indices("onLoadEnd") :
          \A j \in 1..(i - 1) :
             /\ ~(trace[j].op = "abort" /\ trace[j].id = trace[i].e.target)
             /\ ~(trace[j].op = "load" /\ trace[j].id > trace[i].e.target)
    /\ \A i \in Indices("updateState") :
          trace[i].value \in {LOADED, ERRORED}
            => /\ i + 2 <= Len(trace)
               /\ trace[i + 2].op = "onLoadEnd"
               /\ requests[trace[i + 2].e.target].status \in {"loaded", "failed"}

\* The unmount aborted the request that was pending, after an earlier request
\* had been superseded.
C6_Witness ==
    /\ phase = "unmounted"
    /\ Len(requests) = 2
    /\ requests[1].status = "aborted"
    /\ requests[2].status = "aborted"

\* C7: every ImageLoader.load call is the last of the run: state set to Loading,
\* one load-start, the load, made after every earlier request was settled or
\* aborted; every load-start is followed by its load; while mounted with a
\* non-null uri the latest load is the one for that uri; and load-ends never
\* outnumber load-starts.
C7_LoadStartOrder ==
    /\ \A j \in Indices("load") :
          /\ j >= 3
          /\ trace[j - 2] = [op |-> "updateState", value |-> LOADING]
          /\ trace[j - 1].op = "onLoadStart"
          /\ trace[j - 1].fn = requests[trace[j].id].handlers.onLoadStart
          /\ \A id \in 1..(trace[j].id - 1) :
                \/ SettledBefore(id, j - 2)
                \/ \E k \in Indices("abort") : k < j - 2 /\ trace[k].id = id
    /\ \A i \in Indices("onLoadStart") : i < Len(trace) /\ trace[i + 1].op = "load"
    /\ Cardinality(Indices("load")) = Len(requests)
    /\ (phase = "mounted" /\ uri # NullUri)
          => /\ requestRef = Len(requests)
             /\ requestRef # NoRequest
             /\ requests[requestRef].uri = uri
    /\ Cardinality(Indices("onLoadEnd")) <= Cardinality(Indices("onLoadStart"))

\* The uri changed from one value to another while the first load was pending.
C7_Witness ==
    /\ phase = "mounted"
    /\ Len(requests) = 2
    /\ requests[1].uri # requests[2].uri
    /\ requests[1].status = "aborted"
    /\ uri = requests[2].uri

\* C8: while every render so far resolved the source to null, the state is
\* Idle, no load-start was emitted, ImageLoader.load was not called, and
\* shouldDisplaySource is false, so the defaultSource is the source displayed.
C8_NullSourceStaysIdle ==
    (phase = "mounted" /\ sourceAlwaysNull)
      => /\ state = IDLE
         /\ initialState = IDLE
         /\ Indices("onLoadStart") = {}
         /\ Indices("load") = {}
         /\ requests = <<>>
         /\ ~shouldDisplaySource
         /\ selectedSource = props.defaultSource

\* Mounted with a null source and a defaultSource.
C8_Witness ==
    /\ phase = "mounted"
    /\ sourceAlwaysNull
    /\ props.source = Null
    /\ props.defaultSource = StringSource(UriB)

\* C9: in every render shouldDisplaySource is true exactly when the state is
\* Loaded, or Loading with no defaultSource configured (the prop omitted, or
\* null), and the source displayed is the primary source exactly then.
C9_ShouldDisplaySource ==
    phase = "mounted"
      => /\ shouldDisplaySource
              <=> (state = LOADED
                     \/ (state = LOADING /\ props.defaultSource \in {Undefined, Null}))
         /\ selectedSource = IF shouldDisplaySource THEN props.source ELSE props.defaultSource

\* C10: when the resolved uri goes from a value to null, the request held is
\* aborted and requestRef cleared, nothing else is called, no load is issued
\* and the state stays as it was.
C10_UriToNull ==
    [][ (phase = "mounted" /\ phase' = "mounted" /\ uri # NullUri /\ uri' = NullUri)
          => /\ requestRef' = NoRequest
             /\ state' = state
             /\ Len(requests') = Len(requests)
             /\ { id \in DOMAIN requests' : requests'[id].status = "pending" } = {}
             /\ Appended = IF requestRef # NoRequest
                           THEN << [op |-> "abort", id |-> requestRef] >>
                           ELSE << >> ]_vars

\* The uri went to null while a load was pending: the state stays Loading.
C10_Witness ==
    /\ phase = "mounted"
    /\ uri = NullUri
    /\ state = LOADING
    /\ requestRef = NoRequest
    /\ requests # <<>>
    /\ requests[Len(requests)].status = "aborted"
    /\ trace[Len(trace)].op = "abort"

\* A numeric handle for which the registry returns null.
Unregistered(source) == source.type = "number" /\ ~getAssetByID(source.id).registered

\* The error thrown names the handle of source.
NamesHandle(error, source) ==
    error.name = "Error" /\ Contains(error.message, <<ToString(source.id)>>)

\* C11, as stated: a mount that throws for an unregistered handle, of the source
\* or of a displayed defaultSource, throws an error naming the handle and has
\* made no ImageLoader.has or load call and fired no notification.
C11_UnregisteredMountIsSilent ==
    [][ (phase = "init" /\ phase' # "init")
          => /\ Unregistered(props'.source) => phase' = "crashed"
             /\ phase' = "crashed"
                  => /\ thrown'.name = "Error"
                     /\ trace' = <<>>
                     /\ requests' = <<>> ]_vars

\* C11, amended: for an unregistered handle resolution throws an error naming
\* the handle, which nothing in the component catches.  A mount with such a
\* source makes no ImageLoader.has or load call and fires no notification.  A
\* mount with such a defaultSource throws out of the first render that displays
\* it: the very first render when the source's uri is not cached, after at
\* most a has call; with a cached uri the render after the effect, which has set
\* Loading, fired load-start and issued a load that the cleanup then aborts.
C11_UnregisteredHandleThrows ==
    [][ (phase = "init" /\ phase' # "init")
          => /\ Unregistered(props'.source)
                  => /\ phase' = "crashed"
                     /\ NamesHandle(thrown', props'.source)
                     /\ trace' = <<>>
                     /\ requests' = <<>>
             /\ (~Unregistered(props'.source) /\ Unregistered(props'.defaultSource)
                    /\ initialState' # LOADED)
                  => /\ phase' = "crashed"
                     /\ NamesHandle(thrown', props'.defaultSource)
                     /\ Ops(trace') \subseteq {"has"}
                     /\ requests' = <<>>
             /\ (~Unregistered(props'.source) /\ Unregistered(props'.defaultSource)
                    /\ initialState' = LOADED)
                  => /\ phase' = "crashed"
                     /\ NamesHandle(thrown', props'.defaultSource)
                     /\ [i \in DOMAIN trace' |-> trace'[i].op]
                          = <<"has", "updateState", "onLoadStart", "load", "abort">>
                     /\ Len(requests') = 1
                     /\ requests'[1].status = "aborted"
             /\ phase' = "crashed"
                  => Unregistered(props'.source) \/ Unregistered(props'.defaultSource) ]_vars

\* The first render threw for the unregistered defaultSource it displays, after
\* the initializer asked the loader about the source's uri.
C11_Witness ==
    /\ phase = "crashed"
    /\ props.source = ObjectSource(SvgUri)
    /\ props.defaultSource = NumberSource(2)
    /\ initialState = IDLE
    /\ NamesHandle(thrown, props.defaultSource)
    /\ Len(trace) = 1
    /\ trace[1].op = "has"

\* ------------------------------------------------- the pure functions

\* The longest scales list of a manifest.
MaxScales == 3

\* Scales and device pixel ratios, in tenths; ratio 0 stands for undefined.
ScaleValues == { 10, 15, 20, 30 }
Ratios == { 0, 10, 15, 24, 25, 30 }

Manifests == UNION { [1..n -> ScaleValues] : n \in 1..MaxScales }

\* The calls of the scale selection of resolveAssetUri.
SelectScaleCalls ==
    { [fn |-> "selectScale", asset |-> [scales |-> s], devicePixelRatio |-> d] :
        s \in Manifests, d \in Ratios }

\* index.tsx 180-187 for the asset and the ratio of args.
CallSelectScale ==
    /\ args.fn = "selectScale"
    /\ returned = NotCalled
    /\ returned' = LET scale == SelectScale(args.asset, args.devicePixelRatio)
                   IN  [scale |-> scale, scaleSuffix |-> scaleSuffix(scale)]
    /\ UNCHANGED <<args, vars, processVars>>

\* C12: with more than one scale and a ratio, the selected scale is the first
\* candidate of the scales sequence at the least distance from the ratio; a
\* single scale is used whatever the ratio; the suffix is empty exactly for
\* scale 1 and @{scale}x otherwise.  The result is a function of the manifest
\* and the ratio.
C12_ClosestScaleFirstSeen ==
    (args.fn = "selectScale" /\ returned # NotCalled) =>
        LET scales == args.asset.scales
            ratio == args.devicePixelRatio
            first == CHOOSE k \in DOMAIN scales :
                        \A i \in DOMAIN scales :
                            \/ Abs(scales[k] - ratio) < Abs(scales[i] - ratio)
                            \/ Abs(scales[k] - ratio) = Abs(scales[i] - ratio) /\ k <= i
        IN  /\ (Len(scales) > 1 /\ ratio # 0) => returned.scale = scales[first]
            /\ Len(scales) = 1 => returned.scale = scales[1]
            /\ returned.scaleSuffix = <<>> <=> returned.scale = 10
            /\ returned.scale # 10 =>
                  returned.scaleSuffix = <<"@">> \o NumberText(returned.scale) \o <<"x">>
            /\ (scales = <<10, 20, 30>> /\ ratio = 24) => returned.scale = 20
            /\ (scales = <<10, 20>> /\ ratio = 15) => returned.scale = 10

\* Scales [1, 2] at ratio 1.5: both are at distance 0.5 and the first is taken,
\* which gets no suffix.
C12_Witness ==
    /\ args.fn = "selectScale"
    /\ args.asset.scales = <<10, 20>>
    /\ args.devicePixelRatio = 15
    /\ returned # NotCalled
    /\ returned.scale = 10
    /\ returned.scaleSuffix = <<>>

\* The longest SVG payload of a data uri.
MaxPayload == 2

\* The characters of a payload: markup, the characters the escaping is for, a
\* line break and a letter.
PayloadChars == { "<", "#", "\"", "%", "\n", "a" }

Payloads == UNION { [1..n -> PayloadChars] : n \in 0..MaxPayload }

\* Uri strings: data:image/svg+xml;utf8,<payload>, and uris of another form.
SvgUris == { <<SvgPrefix>> \o payload : payload \in Payloads }
PlainUris == { <<"a">>, <<"a", "#">>, <<"a", "\n", "%">>, <<"a", SvgPrefix, "#">> }

ResolveAssetUriCalls ==
    { [fn |-> "resolveAssetUri", source |-> StringSource(u), devicePixelRatio |-> 10] :
        u \in SvgUris \cup PlainUris }

\* resolveAssetUri(source) for the uri string of args.
CallResolveAssetUri ==
    /\ args.fn = "resolveAssetUri"
    /\ returned = NotCalled
    /\ returned' = [uri |-> resolveAssetUri(args.source, args.devicePixelRatio)]
    /\ UNCHANGED <<args, vars, processVars>>

\* The character a %XX escape stands for.
DecodeEscape(hi, lo) ==
    CASE hi = "2" /\ lo = "3" -> "#"
      [] hi = "2" /\ lo = "2" -> "\""
      [] hi = "2" /\ lo = "5" -> "%"
      [] hi = "3" /\ lo = "C" -> "<"
      [] hi = "3" /\ lo = "E" -> ">"
      [] hi = "2" /\ lo = "0" -> " "
      [] hi = "2" /\ lo = "F" -> "/"
      [] hi = "0" /\ lo = "A" -> "\n"
      [] OTHER -> "?"

\* Percent-decoding: the inverse of encodeURIComponent.
RECURSIVE decodeURIComponent(_)
decodeURIComponent(s) ==
    IF s = <<>>
    THEN <<>>
    ELSE IF Head(s) = "%" /\ Len(s) >= 3
         THEN <<DecodeEscape(s[2], s[3])>> \o decodeURIComponent(SubSeq(s, 4, Len(s)))
         ELSE <<Head(s)>> \o decodeURIComponent(Tail(s))

\* C13: a uri data:image/svg+xml;utf8,<payload> resolves to the unchanged
\* prefix followed by the percent-encoded payload, whose decoding is the
\* payload; any other uri string is returned verbatim.
C13_SvgPayloadRoundTrip ==
    (args.fn = "resolveAssetUri" /\ returned # NotCalled) =>
        LET u == args.source.uri
        IN  IF Head(u) = SvgPrefix
            THEN /\ Head(returned.uri) = SvgPrefix
                 /\ decodeURIComponent(Tail(returned.uri)) = Tail(u)
            ELSE returned.uri = u

\* The largest small pixel dimension of an image or a layout box.
MaxDim == 3

\* Pixel dimensions: the small ones, and those of a 400x200 image in a 100x100
\* box.  0 is layout's initial width and height, and an image not yet loaded.
Dims == (0..MaxDim) \cup { 100, 200, 400 }

ResizeModes == { "center", "contain", "cover", "none", "repeat", "stretch" }

\* hiddenImageRef.current: null, or the img element with its natural size.
HiddenImages == { Null } \cup [naturalWidth : Dims, naturalHeight : Dims]

Layouts == [width : Dims, height : Dims]

GetBackgroundSizeCalls ==
    [fn : { "getBackgroundSize" }, hiddenImage : HiddenImages,
     resizeMode : ResizeModes, layout : Layouts]

\* Fractions <<numerator, denominator>> with a positive denominator.
FractionLessThan(a, b) == a[1] * b[2] < b[1] * a[2]

\* Math.min of three numbers.
MathMin(a, b, c) ==
    LET ab == IF FractionLessThan(b, a) THEN b ELSE a
    IN  IF FractionLessThan(c, ab) THEN c ELSE ab

\* Math.ceil(fraction * n) for n >= 0.
MathCeil(fraction, n) == (fraction[1] * n + fraction[2] - 1) \div fraction[2]

\* The same function without the 1 among the arguments of Math.min.
getBackgroundSize_NoCap(hiddenImage, resizeMode, layout) ==
    IF hiddenImage # Null /\ resizeMode \in { "center", "repeat" }
    THEN IF /\ hiddenImage.naturalHeight # 0 /\ hiddenImage.naturalWidth # 0
            /\ layout.height # 0 /\ layout.width # 0
         THEN LET scaleFactor ==
                      MathMin(<<layout.width, hiddenImage.naturalWidth>>,
                              <<layout.width, hiddenImage.naturalWidth>>,
                              <<layout.height, hiddenImage.naturalHeight>>)
              IN  [x |-> MathCeil(scaleFactor, hiddenImage.naturalWidth),
                   y |-> MathCeil(scaleFactor, hiddenImage.naturalHeight)]
         ELSE Undefined
    ELSE Undefined

\* getBackgroundSize (index.tsx 258-276) for the current hiddenImageRef,
\* resolved resizeMode and layout; Undefined when it returns nothing.
getBackgroundSize(hiddenImage, resizeMode, layout) ==
    IF hiddenImage # Null /\ resizeMode \in { "center", "repeat" }
    THEN IF /\ hiddenImage.naturalHeight # 0 /\ hiddenImage.naturalWidth # 0
            /\ layout.height # 0 /\ layout.width # 0
         THEN LET scaleFactor ==
                      MathMin(<<1, 1>>,
                              <<layout.width, hiddenImage.naturalWidth>>,
                              <<layout.height, hiddenImage.naturalHeight>>)
              IN  [x |-> MathCeil(scaleFactor, hiddenImage.naturalWidth),
                   y |-> MathCeil(scaleFactor, hiddenImage.naturalHeight)]
         ELSE Undefined
    ELSE Undefined

CallGetBackgroundSize ==
    /\ args.fn = "getBackgroundSize"
    /\ returned = NotCalled
    /\ returned' = [backgroundSize |->
                        getBackgroundSize(args.hiddenImage, args.resizeMode, args.layout)]
    /\ UNCHANGED <<args, vars, processVars>>

\* C14: an override is produced exactly when the resize mode is center or
\* repeat and the natural dimensions and the layout box are all known and
\* non-zero; it is ceil(f * naturalWidth) x ceil(f * naturalHeight) for f the
\* least of 1, layoutWidth/naturalWidth and layoutHeight/naturalHeight, and
\* never exceeds the natural dimensions.
C14_BackgroundSize ==
    (args.fn = "getBackgroundSize" /\ returned # NotCalled) =>
        LET image == args.hiddenImage
            box == args.layout
            size == returned.backgroundSize
            known == IF image = Null
                     THEN FALSE
                     ELSE /\ image.naturalWidth # 0 /\ image.naturalHeight # 0
                          /\ box.width # 0 /\ box.height # 0
        IN  IF args.resizeMode \in { "center", "repeat" } /\ known
            THEN LET factors == { <<1, 1>>, <<box.width, image.naturalWidth>>,
                                  <<box.height, image.naturalHeight>> }
                 IN  /\ size # Undefined
                     /\ \E f \in factors :
                           /\ \A g \in factors : ~FractionLessThan(g, f)
                           /\ (size.x - 1) * f[2] < f[1] * image.naturalWidth
                           /\ f[1] * image.naturalWidth <= size.x * f[2]
                           /\ (size.y - 1) * f[2] < f[1] * image.naturalHeight
                           /\ f[1] * image.naturalHeight <= size.y * f[2]
                     /\ size.x <= image.naturalWidth
                     /\ size.y <= image.naturalHeight
            ELSE size = Undefined

\* A 400x200 image centred in a 100x100 box is sized 100x50.
C14_Witness ==
    /\ args.fn = "getBackgroundSize"
    /\ args.resizeMode = "center"
    /\ args.hiddenImage = [naturalWidth |-> 400, naturalHeight |-> 200]
    /\ args.layout = [width |-> 100, height |-> 100]
    /\ returned # NotCalled
    /\ returned.backgroundSize = [x |-> 100, y |-> 50]

\* Values of the style-related props, as strings: "undefined" for a prop or a
\* style field that is not given, "null", and the empty string, all falsy.
NoValue == "undefined"
Falsy == { "undefined", "null", "" }

\* a || b
Or(a, b) == IF a \notin Falsy THEN a ELSE b

\* style || {}: a style that is not given has no field.
NoStyle == [resizeMode |-> NoValue, tintColor |-> NoValue, filter |-> NoValue]

Styles ==
    [resizeMode : { NoValue, "", "stretch", "contain" },
     tintColor : { NoValue, "", "blue", "red" },
     filter : { NoValue, "invert(1)" }]

\* blurRadius in px, 0 when it is not given.
BlurRadii == { 0, 2 }

\* A filterId argument that is null.
NoFilterId == -1

\* extractNonStandardStyleProps (index.tsx 112-152) without its warnOnce calls:
\* [resizeMode, filters, tintColor], the filters kept as a list (empty for
\* null) of <<"filter", f>>, <<"blur", px>> and <<"url", id>>.
extractNonStandardStyleProps(style, blurRadius, filterId, tintColorProp) ==
    LET flatStyle == style
        filters ==
            (IF flatStyle.filter \notin Falsy THEN << <<"filter", flatStyle.filter>> >> ELSE <<>>)
            \o (IF blurRadius # 0 THEN << <<"blur", blurRadius>> >> ELSE <<>>)
            \o (IF Or(tintColorProp, flatStyle.tintColor) \notin Falsy /\ filterId # NoFilterId
                THEN << <<"url", filterId>> >>
                ELSE <<>>)
    IN  <<flatStyle.resizeMode, filters, flatStyle.tintColor>>

\* The same resolution with the style value tried before the prop.
ResolvedResizeMode_StyleFirst(propResizeMode, _resizeMode) ==
    Or(Or(_resizeMode, propResizeMode), "cover")

\* resizeMode = propResizeMode || _resizeMode || 'cover' (index.tsx 251)
ResolvedResizeMode(propResizeMode, _resizeMode) ==
    Or(Or(propResizeMode, _resizeMode), "cover")

\* tintColor = propTintColor || _tintColor (index.tsx 252)
ResolvedTintColor(propTintColor, _tintColor) == Or(propTintColor, _tintColor)

StyleCalls ==
    [fn : { "style" }, style : Styles, blurRadius : BlurRadii,
     resizeMode : { NoValue, "", "contain", "center" },
     tintColor : { NoValue, "null", "", "red" }]

\* The style resolution of one render (index.tsx 243-252) of the instance
\* whose filterRef.current is 0.
CallStyle ==
    /\ args.fn = "style"
    /\ returned = NotCalled
    /\ returned' =
          LET extracted == extractNonStandardStyleProps(args.style, args.blurRadius,
                                                        0, args.tintColor)
          IN  [resizeMode |-> ResolvedResizeMode(args.resizeMode, extracted[1]),
               filter |-> extracted[2],
               tintColor |-> ResolvedTintColor(args.tintColor, extracted[3])]
    /\ UNCHANGED <<args, vars, processVars>>

\* A value that is given: neither undefined, null nor the empty string.
Given(value) == value \notin { "undefined", "null", "" }

\* C15: the effective resize mode is the resizeMode prop when given, else
\* style.resizeMode when given, else cover; the effective tint color is the
\* tintColor prop when given, else style.tintColor.
C15_ExplicitPropWins ==
    (args.fn = "style" /\ returned # NotCalled) =>
        /\ returned.resizeMode =
              IF Given(args.resizeMode) THEN args.resizeMode
              ELSE IF Given(args.style.resizeMode) THEN args.style.resizeMode
              ELSE "cover"
        /\ IF Given(args.tintColor) THEN returned.tintColor = args.tintColor
           ELSE IF Given(args.style.tintColor) THEN returned.tintColor = args.style.tintColor
           ELSE ~Given(returned.tintColor)

\* Both the prop and the style give a resize mode and a tint color, and the
\* props are the effective ones.
C15_Witness ==
    /\ args.fn = "style"
    /\ args.resizeMode = "center"
    /\ args.style.resizeMode = "stretch"
    /\ args.tintColor = "red"
    /\ args.style.tintColor = "blue"
    /\ returned # NotCalled
    /\ returned.resizeMode = "center"
    /\ returned.tintColor = "red"

PureCalls ==
    SelectScaleCalls \cup ResolveAssetUriCalls \cup GetBackgroundSizeCalls \cup StyleCalls

InitPure ==
    /\ Init
    /\ NODE_ENV = "development"
    /\ InitProcess
    /\ args \in PureCalls
    /\ returned = NotCalled

NextPure ==
    \/ CallSelectScale
    \/ CallResolveAssetUri
    \/ CallGetBackgroundSize
    \/ CallStyle

\* One call of one pure function on arguments drawn by the initial state.
SpecPure == InitPure /\ [][NextPure]_allVars

\* ------------------------------------------------------------ the process

\* The renders one run of the process may make, over all instances.
MaxRenders == 4

\* The instances one run may construct.
MaxInstances == 3

\* The same function without the warnedKeys[key] check.
warnOnce_NoCheck(w, key) ==
    IF NODE_ENV # "production"
    THEN [warnedKeys |-> w.warnedKeys \cup { key }, console |-> Append(w.console, key)]
    ELSE w

\* warnOnce(key, message) of part_001 on w = [warnedKeys, console]; the
\* console holds the key of each message printed.
warnOnce(w, key) ==
    IF NODE_ENV # "production"
    THEN IF key \in w.warnedKeys
         THEN w
         ELSE [warnedKeys |-> w.warnedKeys \cup { key }, console |-> Append(w.console, key)]
    ELSE w

\* The keys extractNonStandardStyleProps passes to warnOnce for a style.
WarningKeys == { "Image.style.resizeMode", "Image.style.tintColor" }

KeysOf(style) ==
    (IF style.resizeMode \notin Falsy THEN { "Image.style.resizeMode" } ELSE {})
    \cup (IF style.tintColor \notin Falsy THEN { "Image.style.tintColor" } ELSE {})

\* The warnOnce calls of extractNonStandardStyleProps (index.tsx 121-133), in
\* their order.
WarnDeprecated(w, style) ==
    LET w1 == IF style.resizeMode \notin Falsy
              THEN warnOnce(w, "Image.style.resizeMode")
              ELSE w
    IN  IF style.tintColor \notin Falsy
        THEN warnOnce(w1, "Image.style.tintColor")
        ELSE w1

\* The styles a render may pass: each deprecated field given or not.
ProcessStyles ==
    [resizeMode : { NoValue, "contain" }, tintColor : { NoValue, "red" },
     filter : { NoValue }]

\* What every render does to the process: the argument of useRef is evaluated,
\* and the deprecated style fields are warned about.
RenderEffects(style) ==
    LET w == WarnDeprecated([warnedKeys |-> warnedKeys, console |-> console], style)
    IN  /\ _filterId' = _filterId + 1
        /\ warnedKeys' = w.warnedKeys
        /\ console' = w.console
        /\ usedKeys' = Append(usedKeys, KeysOf(style))
        /\ UNCHANGED <<NODE_ENV, vars, pureVars>>

\* The first render of a new instance with useRef(_filterId) for
\* useRef(_filterId++).
Construct_NoIncrement(style) ==
    /\ _filterId < MaxRenders
    /\ Len(instances) < MaxInstances
    /\ instances' = Append(instances, [filterRef |-> _filterId, renders |-> 1])
    /\ LET w == WarnDeprecated([warnedKeys |-> warnedKeys, console |-> console], style)
       IN  /\ _filterId' = _filterId
           /\ warnedKeys' = w.warnedKeys
           /\ console' = w.console
           /\ usedKeys' = Append(usedKeys, KeysOf(style))
           /\ UNCHANGED <<NODE_ENV, vars, pureVars>>

\* The first render of a new instance: useRef(_filterId++) keeps the value of
\* the counter before the increment as filterRef.current.
Construct(style) ==
    /\ _filterId < MaxRenders
    /\ Len(instances) < MaxInstances
    /\ instances' = Append(instances, [filterRef |-> _filterId, renders |-> 1])
    /\ RenderEffects(style)

\* A later render of instance i: useRef ignores its argument, which has been
\* evaluated all the same.
RenderAgain(i, style) ==
    /\ _filterId < MaxRenders
    /\ instances' = [instances EXCEPT ![i].renders = @ + 1]
    /\ RenderEffects(style)

InitProcessSpec ==
    /\ Init
    /\ QuietPure
    /\ NODE_ENV \in { "development", "production" }
    /\ InitProcess

NextProcess ==
    \/ \E style \in ProcessStyles : Construct(style)
    \/ \E i \in DOMAIN instances : \E style \in ProcessStyles : RenderAgain(i, style)

\* Renders of any number of instances in one process.
SpecProcess == InitProcessSpec /\ [][NextProcess]_allVars

\* How often a key was printed.
Printed(log, key) == Cardinality({ i \in DOMAIN log : log[i] = key })

\* The keys the renders before the last one of uses asked for.
UsedBefore(uses) == UNION { uses[i] : i \in 1..(Len(uses) - 1) }

\* C16: in non-production mode each key's warning is printed by the first
\* render that uses the deprecated style field, whatever instance it is of and
\* whatever the other key's state, and never again; no key is ever printed
\* twice.
C16_WarnedOncePerKey ==
    [][ \A key \in WarningKeys :
          /\ Printed(console', key) <= 1
          /\ Printed(console', key) - Printed(console, key) =
                IF /\ NODE_ENV # "production"
                   /\ key \in usedKeys'[Len(usedKeys')]
                   /\ key \notin UsedBefore(usedKeys')
                THEN 1
                ELSE 0 ]_allVars

\* Two instances, three renders that all use style.resizeMode and a last one
\* that also uses style.tintColor: each warning was printed once.
C16_Witness ==
    /\ NODE_ENV = "development"
    /\ Len(instances) = 2
    /\ Len(usedKeys) = 3
    /\ \A i \in 1..3 : "Image.style.resizeMode" \in usedKeys[i]
    /\ "Image.style.tintColor" \in usedKeys[3]
    /\ "Image.style.tintColor" \notin usedKeys[1] \cup usedKeys[2]
    /\ console = <<"Image.style.resizeMode", "Image.style.tintColor">>

\* C17: the filter identifier of an instance is larger than that of every
\* instance constructed before it, hence distinct from every other, and stays
\* the same across the instance's re-renders.
C17_FilterIdUniqueAndStable ==
    [][ /\ \A i \in DOMAIN instances : instances'[i].filterRef = instances[i].filterRef
        /\ \A i, j \in DOMAIN instances' :
              i < j => instances'[i].filterRef < instances'[j].filterRef ]_allVars

\* Two instances, the first re-rendered before the second was constructed.
C17_Witness ==
    /\ Len(instances) = 2
    /\ instances[1].renders >= 2
    /\ instances[1].filterRef = 0
    /\ instances[2].filterRef = 2

\* ------------------------------------------- claims on the load state

\* The most recent ImageLoader.load call was for the uri u and the loader
\* completed it with the given outcome.
LastLoadIs(u, outcome) ==
    /\ requests # <<>>
    /\ requests[Len(requests)].uri = u
    /\ requests[Len(requests)].status = outcome

\* C18, as stated: in a mounted component Loaded implies that the current
\* resolved uri is non-null and that the most recent load, issued for exactly
\* that uri, succeeded; Errored implies that it failed.
C18_StateDescribesCurrentUri ==
    phase = "mounted" =>
        /\ state = LOADED => (uri # NullUri /\ LastLoadIs(uri, "loaded"))
        /\ state = ERRORED => LastLoadIs(uri, "failed")

\* C18, amended: Loaded implies that the most recent load issued succeeded,
\* Errored that it failed, and that load was for the current resolved uri
\* whenever that uri is non-null.  After the uri became null the state still
\* describes the load of the uri before.
C18_StateDescribesLastLoad ==
    phase = "mounted" =>
        /\ state = LOADED =>
              /\ requests # <<>>
              /\ requests[Len(requests)].status = "loaded"
              /\ uri # NullUri => requests[Len(requests)].uri = uri
        /\ state = ERRORED =>
              /\ requests # <<>>
              /\ requests[Len(requests)].status = "failed"
              /\ uri # NullUri => requests[Len(requests)].uri = uri

\* The uri became null after its load succeeded: the state is still Loaded.
C18_Witness ==
    /\ phase = "mounted"
    /\ state = LOADED
    /\ uri = NullUri
    /\ requests # <<>>
    /\ requests[Len(requests)].status = "loaded"

\* The LoadState transitions of spec section 4.2, and staying in a state.
AllowedTransitions ==
    { <<IDLE, LOADING>>, <<LOADING, LOADED>>, <<LOADING, ERRORED>>,
      <<LOADED, LOADING>>, <<ERRORED, LOADING>> }
    \cup { <<s, s>> : s \in { IDLE, LOADING, LOADED, ERRORED } }

\* The state before trace index i: the value of the last updateState call
\* before it, or what the initializer returned.
StateBefore(i) ==
    LET earlier == { j \in Indices("updateState") : j < i }
    IN  IF earlier = {}
        THEN initialState
        ELSE trace[CHOOSE j \in earlier : \A k \in earlier : k <= j].value

\* C19: every change of the LoadState is one of Idle->Loading,
\* Loading->Loaded, Loading->Errored, Loaded->Loading, Errored->Loading; the
\* initial state is Idle, or Loaded when the loader's cache check found the
\* uri.
C19_OnlyAllowedTransitions ==
    phase # "init" =>
        /\ \A i \in Indices("updateState") :
              <<StateBefore(i), trace[i].value>> \in AllowedTransitions
        /\ phase = "mounted" => state = StateBefore(Len(trace) + 1)
        /\ initialState # "none" => initialState \in { IDLE, LOADED }
        /\ initialState = LOADED =>
              /\ trace[1].op = "has"
              /\ ImageLoaderHas(cache, trace[1].uri)

\* Started Loaded from the cache, went to Loading, failed, and went to Loading
\* again for another load.
C19_Witness ==
    /\ phase = "mounted"
    /\ initialState = LOADED
    /\ state = LOADING
    /\ \E i \in Indices("updateState") : trace[i].value = ERRORED

\* ------------------------------------------------------------- liveness

\* The props of the runs checked for liveness: a null source and two uris,
\* one of them cached, with either bundle of callbacks.
LivePropsSet ==
    [source : { Null, StringSource(UriA), ObjectSource(SvgUri) },
     defaultSource : { Undefined },
     handlers : HandlerBundles]

\* The loader calls the load or the error callback of a request.
LoaderCallsBack ==
    \E id \in DOMAIN requests :
        (LoaderSucceeds(id) \/ LoaderFails(id)) /\ UNCHANGED <<pureVars, processVars>>

NextLive ==
    \/ \E p \in LivePropsSet : WithinBounds(p) /\ Mount(p) /\ UNCHANGED <<pureVars, processVars>>
    \/ \E p \in LivePropsSet : WithinBounds(p) /\ Rerender(p) /\ UNCHANGED <<pureVars, processVars>>
    \/ Unmount /\ UNCHANGED <<pureVars, processVars>>
    \/ \E id \in DOMAIN requests : LoaderSucceeds(id) /\ UNCHANGED <<pureVars, processVars>>
    \/ \E id \in DOMAIN requests : LoaderFails(id) /\ UNCHANGED <<pureVars, processVars>>

\* The component with a loader that eventually calls one callback of every
\* request that stays pending; an aborted request is never called back.
SpecLive == InitComponent /\ [][NextLive]_allVars /\ WF_allVars(LoaderCallsBack)

\* Exactly one load-end notification follows the last load-start.
OneLoadEndAfterLastLoadStart ==
    /\ Indices("onLoadStart") # {}
    /\ LET last == CHOOSE i \in Indices("onLoadStart") :
                      \A j \in Indices("onLoadStart") : j <= i
       IN  Cardinality({ k \in Indices("onLoadEnd") : k > last }) = 1

\* C20: if from some point on the instance is mounted with a non-null uri and
\* neither the uri nor the callback props change any more, then from some
\* point on the state is Loaded or Errored for good and exactly one load-end
\* notification has followed the last load-start.
C20_EventuallySettled ==
    ( /\ <>[](phase = "mounted" /\ uri # NullUri)
      /\ <>[][~DepsChanged(uri, props.handlers, uri', props'.handlers)]_allVars )
      => <>[](state \in { LOADED, ERRORED } /\ OneLoadEndAfterLastLoadStart)

\* A second load, issued after the first was superseded, has failed: the state
\* is Errored and one load-end followed the last load-start.
C20_Witness ==
    /\ phase = "mounted"
    /\ uri # NullUri
    /\ Len(requests) >= 2
    /\ requests[1].status = "aborted"
    /\ state = ERRORED
    /\ OneLoadEndAfterLastLoadStart

====
